---------------------------- MODULE Spec2Model ----------------------------
(***************************************************************************)
(* printy: an ESC/POS receipt printer driven over a raw USB bulk          *)
(* transport.  The module models                                           *)
(*   - the protocol codec of src/src/escpos.rs (command encoders and the   *)
(*     status decoder PrinterStatus::from_bytes),                          *)
(*   - the two drivers of src/src/printer.rs (DebugDriver and UsbDriver    *)
(*     with its stall recovery _io_with_retry),                            *)
(*   - the Printer controller (new/init, status, print, print_md, cut),    *)
(*   - the markdown compiler EscposMarkdown, and                           *)
(*   - main() of src/src/main.rs, which opens a printer and runs one       *)
(*     command.                                                            *)
(* Spec is the whole program; SpecDecode, SpecDecodeWide, SpecEncode and   *)
(* SpecCompile run the decoder, the encoders and the compiler alone.       *)
(* Bytes are the integers 0..255, byte strings are sequences of bytes.     *)
(***************************************************************************)
EXTENDS Integers, Sequences, FiniteSets, TLC

VARIABLES
    pc,           \* position of main()/Printer: which call is in progress
    drv,          \* args.debug: "Debug" or "Usb"
    cmd,          \* args.command with the file read: [kind, md, content, doc]
                  \* (doc: what to_mdast makes of the content of an .md file)
                  \* (codec alone: the encoder called with its arguments,
                  \* or the compiler's tree and the buffer handed to it)
    in_ept_addr,  \* UsbDriver.in_ept_addr
    out_ept_addr, \* UsbDriver.out_ept_addr
    write_count,  \* DebugDriver.write_count
    read_count,   \* DebugDriver.read_count
    ioStage,      \* position inside the driver call in progress
    ioOp,         \* the driver call in progress: [op, data, cap]
    ioRes,        \* PrintyResult of the last finished driver call
    draining,     \* UsbDriver::drain is looping over self.read
    opStart,      \* Len(bus) when the current read/write call was entered
    drainStart,   \* Len(bus) when the current drain call was entered
    buf,          \* the 4-byte reply buffer of Printer::status
                  \* (codec alone: the snapshot decoded, the bytes an
                  \* encoder returned, the buffer compile_node works on)
    statusRes,    \* what Printer::status returned
    bus,          \* history: every transfer the drivers asked of the device
    calls         \* history: every read/write/drain call made on a driver

vars == <<pc, drv, cmd, in_ept_addr, out_ept_addr, write_count, read_count,
          ioStage, ioOp, ioRes, draining, opStart, drainStart, buf,
          statusRes, bus, calls>>

---------------------------------------------------------------------------
(* Bounds of the model. *)

\* most non-empty reads the device delivers to one drain() before it
\* answers with a zero-length read or an error
MaxDrainReads == 2

\* most nodes of a markdown tree handed to the compiler
MaxNodes == 4

---------------------------------------------------------------------------
(* Option and Result values. *)

None == [some |-> FALSE]

Some(v) == [some |-> TRUE, val |-> v]

Ok(n) == [ok |-> TRUE, n |-> n, err |-> "none"]

Err(e) == [ok |-> FALSE, n |-> 0, err |-> e]

---------------------------------------------------------------------------
(* Bit arithmetic on u8. *)

RECURSIVE BitAnd(_, _)
BitAnd(a, b) ==
    IF a = 0 \/ b = 0 THEN 0
    ELSE (a % 2) * (b % 2) + 2 * BitAnd(a \div 2, b \div 2)

RECURSIVE BitOr(_, _)
BitOr(a, b) ==
    IF a = 0 THEN b
    ELSE IF b = 0 THEN a
    ELSE (IF a % 2 = 1 \/ b % 2 = 1 THEN 1 ELSE 0)
         + 2 * BitOr(a \div 2, b \div 2)

\* `enable as u8` for a bool
BoolAsU8(x) == IF x THEN 1 ELSE 0

\* `req as u8` for an enum discriminant
EnumAsU8(x) == x % 256

\* u8 << k: the bits shifted out are lost
Shl8(x, k) == (x * (2 ^ k)) % 256

Min(a, b) == IF a < b THEN a ELSE b

Max(a, b) == IF a > b THEN a ELSE b

\* u8::clamp(lo, hi)
clamp(x, lo, hi) == Min(Max(x, lo), hi)

---------------------------------------------------------------------------
(* escpos.rs: command encoders. *)

ESC == 27

DLE == 16

EOT == 4

GS == 29

\* def_cmd!: [$header, &[$param as u8]].concat(), the cast done by the caller
def_cmd(header, param) == header \o <<param>>

\* &[ESC, b'@']
CMD_INIT == <<ESC, 64>>

_CMD_RT_STATUS == <<DLE, EOT>>

\* enum RtStatusReq
RtStatusReq ==
    [PrinterStatus |-> 1, OfflineCause |-> 2, ErrorCause |-> 3, PaperStatus |-> 4]

CMD_RT_STATUS(req) == def_cmd(_CMD_RT_STATUS, EnumAsU8(req))

\* &[GS, b'a', 0]
CMD_DISABLE_ASB == <<GS, 97, 0>>

\* &[GS, b'V', 66, 0]
CMD_CUT == <<GS, 86, 66, 0>>

\* &[ESC, b'E']
_CMD_BOLD == <<ESC, 69>>

CMD_BOLD(enable) == def_cmd(_CMD_BOLD, BoolAsU8(enable))

\* &[ESC, b'-']
_CMD_UNDERLINE == <<ESC, 45>>

CMD_UNDERLINE(enable) == def_cmd(_CMD_UNDERLINE, BoolAsU8(enable))

\* faulty variant: the magnifications are packed without clamping
CMD_CHAR_SIZE_NoClamp(h_magnify, w_magnify) ==
    <<GS, 33, BitOr(Shl8(w_magnify, 4), h_magnify)>>

\* vec![GS, b'!', (w.clamp(0, 8) << 4) | h.clamp(0, 8)]
CMD_CHAR_SIZE(h_magnify, w_magnify) ==
    <<GS, 33, BitOr(Shl8(clamp(w_magnify, 0, 8), 4), clamp(h_magnify, 0, 8))>>

\* &[ESC, b'a']
_CMD_JUSTIFY == <<ESC, 97>>

\* faulty variant: the discriminants count from one
JustifyReq_FromOne == [Left |-> 1, Center |-> 2, Right |-> 3]

\* enum JustifyReq
JustifyReq == [Left |-> 0, Center |-> 1, Right |-> 2]

CMD_JUSTIFY(req) == def_cmd(_CMD_JUSTIFY, EnumAsU8(req))

---------------------------------------------------------------------------
(* escpos.rs: PrinterStatus::from_bytes. *)

\* faulty variant: the mask also fixes bit 3
TemplateOk_Strict(b) == BitAnd(b, 155) = 18

\* (b & 0b10010011) == 0b00010010
TemplateOk(b) == BitAnd(b, 147) = 18

\* faulty variant: `any` in place of `all`
AllTemplateOk_Any(bytes) == \E i \in 1..Len(bytes) : TemplateOk(bytes[i])

\* bytes.iter().all(...)
AllTemplateOk(bytes) == \A i \in 1..Len(bytes) : TemplateOk(bytes[i])

\* faulty variant: the wrong bit of the deviceStatus byte is tested
is_online_of_Bit2(dev_status_b) == BitAnd(dev_status_b, 4) = 0

\* let is_online = (dev_status_b & 0b1000) == 0
is_online_of(dev_status_b) == BitAnd(dev_status_b, 8) = 0

\* faulty variant: the fatal and the recoverable flag read each other's bit
off_err_of_Swapped(off_cause_b, err_cause_b) ==
    IF BitAnd(off_cause_b, 64) # 0
    THEN Some([is_cutter_err |-> BitAnd(err_cause_b, 8) # 0,
               is_fatal_err |-> BitAnd(err_cause_b, 64) # 0,
               is_recoverable_err |-> BitAnd(err_cause_b, 32) # 0])
    ELSE None

\* let off_err = if (off_cause_b & 0b1000000) != 0 { builder...build().ok() }
off_err_of(off_cause_b, err_cause_b) ==
    IF BitAnd(off_cause_b, 64) # 0
    THEN Some([is_cutter_err |-> BitAnd(err_cause_b, 8) # 0,
               is_fatal_err |-> BitAnd(err_cause_b, 32) # 0,
               is_recoverable_err |-> BitAnd(err_cause_b, 64) # 0])
    ELSE None

\* faulty variant: the cause is built although the printer is online
off_cause_of_Always(is_online, off_cause_b, off_err) ==
    Some([is_cover_open |-> BitAnd(off_cause_b, 4) # 0,
          is_paper_empty |-> BitAnd(off_cause_b, 32) # 0,
          error |-> off_err])

\* let off_cause = if !is_online { builder...build().ok() } else { None }
off_cause_of(is_online, off_cause_b, off_err) ==
    IF ~is_online
    THEN Some([is_cover_open |-> BitAnd(off_cause_b, 4) # 0,
               is_paper_empty |-> BitAnd(off_cause_b, 32) # 0,
               error |-> off_err])
    ELSE None

\* faulty variant: the near-end arm is tried before the paper-out arm
paper_status_of_NearFirst(paper_status_b) ==
    IF BitAnd(paper_status_b, 12) # 0 THEN "NearEnd"
    ELSE IF BitAnd(paper_status_b, 96) # 0 THEN "NotPresent"
    ELSE "Adequate"

\* match paper_status_b { ... }
paper_status_of(paper_status_b) ==
    IF BitAnd(paper_status_b, 96) # 0 THEN "NotPresent"
    ELSE IF BitAnd(paper_status_b, 12) # 0 THEN "NearEnd"
    ELSE "Adequate"

from_bytes(bytes) ==
    IF ~AllTemplateOk(bytes) THEN None
    ELSE LET is_online == is_online_of(bytes[1])
             off_err == off_err_of(bytes[2], bytes[3])
             off_cause == off_cause_of(is_online, bytes[2], off_err)
         IN  Some([is_online |-> is_online,
                   paper_status |-> paper_status_of(bytes[4]),
                   offline_cause |-> off_cause])

---------------------------------------------------------------------------
(* printer.rs: values the drivers and the controller exchange. *)

\* statusRes before Printer::status has returned
NotYet == [pending |-> TRUE]

\* let mut buf = [0u8; 4]
ZeroBuf == <<0, 0, 0, 0>>

NoOp == [op |-> "none", data |-> <<>>, cap |-> 0, dst |-> "none"]

WriteOp(data) == [op |-> "write", data |-> data, cap |-> 0, dst |-> "none"]

ReadOp(cap, dst) == [op |-> "read", data |-> <<>>, cap |-> cap, dst |-> dst]

DrainOp == [op |-> "drain", data |-> <<>>, cap |-> 0, dst |-> "none"]

\* one entry of the history: the transfer asked of the device and its outcome
Event(site, kind, ept, data, res) ==
    [site |-> site, kind |-> kind, ept |-> ept, data |-> data, res |-> res]

\* the events of the read/write call in progress (or just finished)
OpEvents == SubSeq(bus, opStart + 1, Len(bus))

\* the events of the drain call in progress (or just finished)
DrainEvents == SubSeq(bus, drainStart + 1, Len(bus))

IsXfer(e) == e.kind \in {"read_bulk", "write_bulk"}

IsClear(e) == e.kind = "clear_halt"

IsWrite(e) == e.kind \in {"write_bulk", "stdout"}

IsRead(e) == e.kind \in {"read_bulk", "stdin"}

IsNonEmptyRead(e) == IsRead(e) /\ e.res.ok /\ e.res.n > 0

NumXfers(seq) == Cardinality({i \in 1..Len(seq) : IsXfer(seq[i])})

NumClears(seq) == Cardinality({i \in 1..Len(seq) : IsClear(seq[i])})

NumReads(seq) == Cardinality({i \in 1..Len(seq) : IsRead(seq[i])})

NumWrites(seq) == Cardinality({i \in 1..Len(seq) : IsWrite(seq[i])})

NumNonEmptyReads(seq) ==
    Cardinality({i \in 1..Len(seq) : IsNonEmptyRead(seq[i])})

---------------------------------------------------------------------------
(* Inputs: what the command line, the file and the device may supply. *)

\* file contents given to `print`
Contents == {<<>>, <<72, 105, 10, 27, 64>>}

\* an mdast node; fields a kind does not have are left empty
Node(kind, depth, value, children) ==
    [kind |-> kind, depth |-> depth, value |-> value, children |-> children]

Text(value) == Node("Text", 0, value, <<>>)

\* no tree: the file is not markdown
NoDoc == Node("None", 0, <<>>, <<>>)

\* to_mdast returned an error
ParseFailed == Node("ParseError", 0, <<>>, <<>>)

\* trees to_mdast may return for the content of an .md file
Docs ==
    { Node("Root", 0, <<>>, <<>>),
      Node("Root", 0, <<>>,
           << Node("Heading", 1, <<>>, <<Text(<<72, 105>>)>>),
              Node("Paragraph", 0, <<>>,
                   << Text(<<97>>),
                      Node("Strong", 0, <<>>, <<Text(<<98>>)>>) >>) >>),
      Node("Root", 0, <<>>,
           << Node("Heading", 2, <<>>,
                   << Node("Strong", 0, <<>>, <<Text(<<120>>)>>),
                      Text(<<121>>) >>),
              Node("ThematicBreak", 0, <<>>, <<>>),
              Node("Heading", 4, <<>>,
                   <<Node("Emphasis", 0, <<>>, <<Text(<<101>>)>>)>>) >>) }

Commands ==
    {[kind |-> "Status", md |-> FALSE, content |-> <<>>, doc |-> NoDoc]}
    \cup {[kind |-> "Print", md |-> FALSE, content |-> c, doc |-> NoDoc] :
             c \in Contents}
    \cup {[kind |-> "Print", md |-> TRUE, content |-> <<>>, doc |-> d] :
             d \in Docs \cup {ParseFailed}}

\* rusb::Error values a bulk transfer or clear_halt may fail with
UsbErrors == {"Pipe", "Timeout"}

\* bulk endpoint addresses UsbDriver::new may discover
InEpts == {130}

OutEpts == {1}

\* 4-byte status replies the device may send
Replies ==
    { <<18, 18, 18, 18>>,      \* online, paper adequate
      <<26, 22, 18, 18>>,      \* offline, cover open
      <<26, 114, 50, 114>>,    \* offline, paper empty, fatal error, paper out
      <<18, 118, 122, 30>>,    \* online although cause bits are set, near end
      <<18, 0, 18, 18>>,       \* second byte off the template
      <<146, 18, 18, 19>> }    \* first and last byte off the template

\* byte counts a read into a buffer of `cap` bytes may report; the drain
\* buffer of 16 bytes is sampled at the documented 7-byte power-on burst and
\* a full buffer
ReadLens(cap) == IF cap <= 4 THEN 0..cap ELSE {0, 7, cap}

\* byte counts a bulk write of `len` bytes may report: nothing, one byte,
\* all but one byte, everything
WriteLens(len) == {n \in 0..len : n <= 1 \/ n >= len - 1}

---------------------------------------------------------------------------
(* printer.rs: UsbDriver. *)

\* faulty variant: every error is taken for a stall
IsStall_Any(e) == TRUE

\* rusb::Error::Pipe => ...
IsStall(e) == e = "Pipe"

\* io_func().or_else(|e| match e { Pipe => ..., _ => Err(...) })
AfterFirst(r) ==
    IF r.ok THEN [stage |-> "ret", res |-> r]
    ELSE IF IsStall(r.err) THEN [stage |-> "clear", res |-> r]
    ELSE [stage |-> "ret", res |-> Err("I/O error")]

\* self.dev.clear_halt(ept_addr).map_err(...)?; sleep(...)
AfterClear(c) ==
    IF c.ok THEN [stage |-> "retry", res |-> c]
    ELSE [stage |-> "ret", res |-> Err("Failed to clear halt")]

\* faulty variant: a stalled retry goes back to clear-halt and retries again
AfterRetry_Again(r) ==
    IF r.ok THEN [stage |-> "ret", res |-> r]
    ELSE IF r.err = "Pipe" THEN [stage |-> "clear", res |-> r]
    ELSE [stage |-> "ret", res |-> Err("Failed to retry")]

\* io_func().map_err(...)
AfterRetry(r) ==
    IF r.ok THEN [stage |-> "ret", res |-> r]
    ELSE [stage |-> "ret", res |-> Err("Failed to retry")]

\* faulty variant: the byte count is passed on unchecked
WriteCheck_Lenient(res, data) == res

\* UsbDriver::write: w_len if w_len == data.len() => Ok(w_len), else Err
WriteCheck(res, data) ==
    IF ~res.ok THEN res
    ELSE IF res.n = Len(data) THEN Ok(res.n)
    ELSE Err("Partial write")

\* what UsbDriver::read / UsbDriver::write return for the result of
\* _io_with_retry
UsbReturn(op, res) == IF op.op = "write" THEN WriteCheck(res, op.data) ELSE res

\* faulty variant: the loop goes on after a zero-length read
DrainContinues_Always(res) == res.ok

\* while self.read(&mut _buf)? != 0 {}
DrainContinues(res) == res.ok /\ res.n # 0

\* the endpoint of the call in progress
UsbEpt == IF ioOp.op = "read" THEN in_ept_addr ELSE out_ept_addr

BulkKind == IF ioOp.op = "read" THEN "read_bulk" ELSE "write_bulk"

\* outcomes the device can give the transfer of the call in progress
DeviceResults ==
    {Err(e) : e \in UsbErrors}
    \cup (IF ioOp.op = "write"
          THEN {Ok(n) : n \in WriteLens(Len(ioOp.data))}
          ELSE {Ok(n) : n \in
                   {k \in ReadLens(ioOp.cap) :
                       (draining /\ k > 0) =>
                           NumNonEmptyReads(DrainEvents) < MaxDrainReads}})

\* read_bulk copies the n bytes received to the front of the buffer
Filled(old, n, reply) ==
    [i \in 1..Len(old) |-> IF i <= n THEN reply[i] ELSE old[i]]

\* the status buffer after a transfer with result r
BufAfter(r, reply) ==
    IF r.ok /\ ioOp.op = "read" /\ ioOp.dst = "buf"
    THEN Filled(buf, r.n, reply) ELSE buf

\* the bytes a transfer carried: the payload of a write, the bytes received
\* into the status buffer (what drain receives is discarded unread)
Carried(r, reply) ==
    IF ioOp.op = "write" THEN ioOp.data
    ELSE IF r.ok /\ ioOp.dst = "buf" THEN SubSeq(reply, 1, r.n)
    ELSE <<>>

---------------------------------------------------------------------------
(* The state after the command line is parsed, before main() opens the     *)
(* printer.                                                                *)

Init ==
    /\ pc = "main"
    /\ drv \in {"Debug", "Usb"}
    /\ cmd \in Commands
    /\ in_ept_addr = 0
    /\ out_ept_addr = 0
    /\ write_count = 0
    /\ read_count = 0
    /\ ioStage = "idle"
    /\ ioOp = NoOp
    /\ ioRes = Ok(0)
    /\ draining = FALSE
    /\ opStart = 0
    /\ drainStart = 0
    /\ buf = ZeroBuf
    /\ statusRes = NotYet
    /\ bus = <<>>
    /\ calls = <<>>

\* a method of the driver is called from `site`
Call(site, op) ==
    /\ ioStage' = "call"
    /\ ioOp' = op
    /\ opStart' = Len(bus)
    /\ calls' = Append(calls, [site |-> site, op |-> op])

\* the controller has taken the result of the call and makes no other
Idle ==
    /\ ioStage' = "idle"
    /\ UNCHANGED <<ioOp, opStart, calls>>

\* a driver call has returned to the controller
Returned == ioStage = "ret" /\ ~draining

---------------------------------------------------------------------------
(* main.rs: opening the printer.  Printer::debug / Printer::usb build the  *)
(* driver and hand it to Printer::new, which runs init(): drain, write     *)
(* CMD_INIT, write CMD_DISABLE_ASB.                                        *)

\* Printer::debug(): DebugDriver::default(), then init() calls drain
OpenDebug ==
    /\ pc = "main"
    /\ drv = "Debug"
    /\ pc' = "drain"
    /\ Call("drain", DrainOp)
    /\ UNCHANGED <<drv, cmd, in_ept_addr, out_ept_addr, write_count,
                   read_count, ioRes, draining, drainStart, buf, statusRes,
                   bus>>

\* Printer::usb(): UsbDriver::new finds the device, its bulk endpoints and
\* claims the interface, or fails; on success init() calls drain
OpenUsb ==
    /\ pc = "main"
    /\ drv = "Usb"
    /\ \/ /\ pc' = "exit1"
          /\ UNCHANGED <<in_ept_addr, out_ept_addr, ioStage, ioOp, opStart,
                         calls>>
       \/ /\ in_ept_addr' \in InEpts
          /\ out_ept_addr' \in OutEpts
          /\ pc' = "drain"
          /\ Call("drain", DrainOp)
    /\ UNCHANGED <<drv, cmd, write_count, read_count, ioRes, draining,
                   drainStart, buf, statusRes, bus>>

\* init(): self.driver.drain()?; then self.driver.write(CMD_INIT)
InitAfterDrain ==
    /\ pc = "drain"
    /\ Returned
    /\ IF ioRes.ok
       THEN pc' = "init" /\ Call("init", WriteOp(CMD_INIT))
       ELSE pc' = "exit1" /\ Idle
    /\ UNCHANGED <<drv, cmd, in_ept_addr, out_ept_addr, write_count,
                   read_count, ioRes, draining, drainStart, buf, statusRes,
                   bus>>

\* faulty variant: the result of the init write is dropped (no `?`)
InitAfterInit_NoCheck ==
    /\ pc = "init"
    /\ Returned
    /\ pc' = "asb"
    /\ Call("asb", WriteOp(CMD_DISABLE_ASB))
    /\ UNCHANGED <<drv, cmd, in_ept_addr, out_ept_addr, write_count,
                   read_count, ioRes, draining, drainStart, buf, statusRes,
                   bus>>

\* init(): self.driver.write(CMD_INIT)?; then write(CMD_DISABLE_ASB)
InitAfterInit ==
    /\ pc = "init"
    /\ Returned
    /\ IF ioRes.ok
       THEN pc' = "asb" /\ Call("asb", WriteOp(CMD_DISABLE_ASB))
       ELSE pc' = "exit1" /\ Idle
    /\ UNCHANGED <<drv, cmd, in_ept_addr, out_ept_addr, write_count,
                   read_count, ioRes, draining, drainStart, buf, statusRes,
                   bus>>

\* faulty variant: the result of the last open-time write is dropped
InitAfterAsb_NoCheck ==
    /\ pc = "asb"
    /\ Returned
    /\ pc' = "ready"
    /\ Idle
    /\ UNCHANGED <<drv, cmd, in_ept_addr, out_ept_addr, write_count,
                   read_count, ioRes, draining, drainStart, buf, statusRes,
                   bus>>

\* init(): self.driver.write(CMD_DISABLE_ASB)?; Ok(self); new returns the
\* printer to main
InitAfterAsb ==
    /\ pc = "asb"
    /\ Returned
    /\ pc' = IF ioRes.ok THEN "ready" ELSE "exit1"
    /\ Idle
    /\ UNCHANGED <<drv, cmd, in_ept_addr, out_ept_addr, write_count,
                   read_count, ioRes, draining, drainStart, buf, statusRes,
                   bus>>

---------------------------------------------------------------------------
(* Printer::status. *)

\* faulty variant: ErrorCause and PaperStatus requested in the other order
batched_status_cmds_Swapped ==
    CMD_RT_STATUS(RtStatusReq.PrinterStatus)
    \o CMD_RT_STATUS(RtStatusReq.OfflineCause)
    \o CMD_RT_STATUS(RtStatusReq.PaperStatus)
    \o CMD_RT_STATUS(RtStatusReq.ErrorCause)

\* the four requests concatenated
batched_status_cmds ==
    CMD_RT_STATUS(RtStatusReq.PrinterStatus)
    \o CMD_RT_STATUS(RtStatusReq.OfflineCause)
    \o CMD_RT_STATUS(RtStatusReq.ErrorCause)
    \o CMD_RT_STATUS(RtStatusReq.PaperStatus)

\* match self.driver.read(&mut buf) { Ok(len) if len == buf.len() => ... }
StatusOf(res, bytes) ==
    IF res.ok /\ res.n = Len(bytes) THEN from_bytes(bytes) ELSE None

\* where status() goes when its write has returned: unwrap() panics on Err
AfterStatusWrite(res) == IF res.ok THEN "st_read" ELSE "panic"

\* main: Commands::Status => printer.status(), which writes the requests
RunStatus ==
    /\ pc = "ready"
    /\ cmd.kind = "Status"
    /\ pc' = "st_write"
    /\ Call("st_write", WriteOp(batched_status_cmds))
    /\ UNCHANGED <<drv, cmd, in_ept_addr, out_ept_addr, write_count,
                   read_count, ioRes, draining, drainStart, buf, statusRes,
                   bus>>

\* self.driver.write(...).unwrap(); sleep; let mut buf = [0u8; 4];
\* self.driver.read(&mut buf)
StatusAfterWrite ==
    /\ pc = "st_write"
    /\ Returned
    /\ pc' = AfterStatusWrite(ioRes)
    /\ IF pc' = "st_read"
       THEN buf' = ZeroBuf /\ Call("st_read", ReadOp(Len(ZeroBuf), "buf"))
       ELSE Idle /\ UNCHANGED buf
    /\ UNCHANGED <<drv, cmd, in_ept_addr, out_ept_addr, write_count,
                   read_count, ioRes, draining, drainStart, statusRes, bus>>

\* the match on the read result; main prints the status and returns Ok(())
StatusAfterRead ==
    /\ pc = "st_read"
    /\ Returned
    /\ statusRes' = StatusOf(ioRes, buf)
    /\ pc' = "done"
    /\ Idle
    /\ UNCHANGED <<drv, cmd, in_ept_addr, out_ept_addr, write_count,
                   read_count, ioRes, draining, drainStart, buf, bus>>

---------------------------------------------------------------------------
(* Printer::print, Printer::cut and main's `print(..)?.cut()?`. *)

\* EscposMarkdown::compile_node, folded over the children of a node
RECURSIVE compile_node(_, _)
RECURSIVE compile_children(_, _)

\* faulty variant: the children are visited last to first
compile_children_Reversed(children, out) ==
    IF children = <<>> THEN out
    ELSE compile_node(Head(children), compile_children(Tail(children), out))

\* children.iter().for_each(|child| self.compile_node(child, buf))
compile_children(children, out) ==
    IF children = <<>> THEN out
    ELSE compile_children(Tail(children), compile_node(Head(children), out))

\* faulty variant: the arms of depth 2 and depth 3 are exchanged
heading_style_Swapped(depth) ==
    IF depth = 1
    THEN [style |-> CMD_CHAR_SIZE(1, 0), reset |-> CMD_CHAR_SIZE(0, 0)]
    ELSE IF depth = 3
    THEN [style |-> CMD_UNDERLINE(TRUE) \o CMD_BOLD(TRUE),
          reset |-> CMD_UNDERLINE(FALSE) \o CMD_BOLD(FALSE)]
    ELSE IF depth = 2
    THEN [style |-> CMD_BOLD(TRUE), reset |-> CMD_BOLD(FALSE)]
    ELSE [style |-> <<>>, reset |-> <<>>]

\* faulty variant: the headings of depth 3 have no reset commands
heading_style_NoReset(depth) ==
    IF depth = 1
    THEN [style |-> CMD_CHAR_SIZE(1, 0), reset |-> CMD_CHAR_SIZE(0, 0)]
    ELSE IF depth = 2
    THEN [style |-> CMD_UNDERLINE(TRUE) \o CMD_BOLD(TRUE),
          reset |-> CMD_UNDERLINE(FALSE) \o CMD_BOLD(FALSE)]
    ELSE IF depth = 3
    THEN [style |-> CMD_BOLD(TRUE), reset |-> <<>>]
    ELSE [style |-> <<>>, reset |-> <<>>]

\* let (style_cmds, reset_cmds) = match header.depth { ... }
heading_style(depth) ==
    IF depth = 1
    THEN [style |-> CMD_CHAR_SIZE(1, 0), reset |-> CMD_CHAR_SIZE(0, 0)]
    ELSE IF depth = 2
    THEN [style |-> CMD_UNDERLINE(TRUE) \o CMD_BOLD(TRUE),
          reset |-> CMD_UNDERLINE(FALSE) \o CMD_BOLD(FALSE)]
    ELSE IF depth = 3
    THEN [style |-> CMD_BOLD(TRUE), reset |-> CMD_BOLD(FALSE)]
    ELSE [style |-> <<>>, reset |-> <<>>]

\* faulty variant: a node of any other kind passes its children through
compile_node_Transparent(node, out) ==
    IF node.kind = "Root" THEN compile_children(node.children, out)
    ELSE IF node.kind = "Paragraph"
    THEN compile_children(node.children, out) \o <<10, 10>>
    ELSE IF node.kind = "Heading"
    THEN LET h == heading_style(node.depth)
         IN  compile_children(node.children, out \o h.style)
                 \o h.reset \o <<10, 10>>
    ELSE IF node.kind = "Text" THEN out \o node.value
    ELSE IF node.kind = "Strong"
    THEN compile_children(node.children, out \o CMD_BOLD(TRUE))
             \o CMD_BOLD(FALSE)
    ELSE compile_children(node.children, out)

\* fn compile_node(&self, node: &mdast::Node, buf: &mut Vec<u8>)
compile_node(node, out) ==
    IF node.kind = "Root" THEN compile_children(node.children, out)
    ELSE IF node.kind = "Paragraph"
    THEN compile_children(node.children, out) \o <<10, 10>>
    ELSE IF node.kind = "Heading"
    THEN LET h == heading_style(node.depth)
         IN  compile_children(node.children, out \o h.style)
                 \o h.reset \o <<10, 10>>
    ELSE IF node.kind = "Text" THEN out \o node.value
    ELSE IF node.kind = "Strong"
    THEN compile_children(node.children, out \o CMD_BOLD(TRUE))
             \o CMD_BOLD(FALSE)
    ELSE out

\* EscposMarkdown::compile: the parse error is returned, else the root is
\* compiled into an empty buffer
compile(doc) ==
    IF doc = ParseFailed THEN [ok |-> FALSE, bytes |-> <<>>]
    ELSE [ok |-> TRUE, bytes |-> compile_node(doc, <<>>)]

\* main: Some(ext) if ext == "md" => printer.print_md(&content)
RunPrintMd ==
    /\ pc = "ready"
    /\ cmd.kind = "Print"
    /\ cmd.md
    /\ IF compile(cmd.doc).ok
       THEN pc' = "print" /\ Call("print", WriteOp(compile(cmd.doc).bytes))
       ELSE pc' = "err" /\ Idle
    /\ UNCHANGED <<drv, cmd, in_ept_addr, out_ept_addr, write_count,
                   read_count, ioRes, draining, drainStart, buf, statusRes,
                   bus>>

\* main: _ => printer.print(&content)
RunPrint ==
    /\ pc = "ready"
    /\ cmd.kind = "Print"
    /\ ~cmd.md
    /\ pc' = "print"
    /\ Call("print", WriteOp(cmd.content))
    /\ UNCHANGED <<drv, cmd, in_ept_addr, out_ept_addr, write_count,
                   read_count, ioRes, draining, drainStart, buf, statusRes,
                   bus>>

\* faulty variant: cut is called whatever the print write returned
PrintAfterWrite_NoCheck ==
    /\ pc = "print"
    /\ Returned
    /\ pc' = "cut"
    /\ Call("cut", WriteOp(CMD_CUT))
    /\ UNCHANGED <<drv, cmd, in_ept_addr, out_ept_addr, write_count,
                   read_count, ioRes, draining, drainStart, buf, statusRes,
                   bus>>

\* self.driver.write(data.as_bytes())?; Ok(self); then .cut()
PrintAfterWrite ==
    /\ pc = "print"
    /\ Returned
    /\ IF ioRes.ok
       THEN pc' = "cut" /\ Call("cut", WriteOp(CMD_CUT))
       ELSE pc' = "err" /\ Idle
    /\ UNCHANGED <<drv, cmd, in_ept_addr, out_ept_addr, write_count,
                   read_count, ioRes, draining, drainStart, buf, statusRes,
                   bus>>

\* self.driver.write(CMD_CUT)?; Ok(self); main returns
CutAfterWrite ==
    /\ pc = "cut"
    /\ Returned
    /\ pc' = IF ioRes.ok THEN "done" ELSE "err"
    /\ Idle
    /\ UNCHANGED <<drv, cmd, in_ept_addr, out_ept_addr, write_count,
                   read_count, ioRes, draining, drainStart, buf, statusRes,
                   bus>>

---------------------------------------------------------------------------
(* printer.rs: DebugDriver, the simulated backend on stdin/stdout. *)

\* the byte values a line typed on stdin may parse to (Ok(values))
StdinValues ==
    {SubSeq(r, 1, k) : r \in Replies, k \in 0..4}
    \cup {r \o <<18>> : r \in Replies}

\* fn drain(&mut self) -> PrintyResult<()> { Ok(()) }
DebugDrain ==
    /\ drv = "Debug"
    /\ ioStage = "call"
    /\ ioOp.op = "drain"
    /\ ioStage' = "ret"
    /\ ioRes' = Ok(0)
    /\ UNCHANGED <<pc, drv, cmd, in_ept_addr, out_ept_addr, write_count,
                   read_count, ioOp, draining, opStart, drainStart, buf,
                   statusRes, bus,
                   calls>>

\* prints the hex dump, counts the write, Ok(data.len())
DebugWrite ==
    /\ drv = "Debug"
    /\ ioStage = "call"
    /\ ioOp.op = "write"
    /\ write_count' = write_count + 1
    /\ ioRes' = Ok(Len(ioOp.data))
    /\ bus' = Append(bus, Event(pc, "stdout", 0, ioOp.data, ioRes'))
    /\ ioStage' = "ret"
    /\ UNCHANGED <<pc, drv, cmd, in_ept_addr, out_ept_addr, read_count, ioOp,
                   draining, opStart, drainStart, buf, statusRes,
                   calls>>

\* reads a line of hex tokens: a malformed line is an error, else the first
\* min(values.len(), buf.len()) values are copied
DebugRead ==
    /\ drv = "Debug"
    /\ ioStage = "call"
    /\ ioOp.op = "read"
    /\ \/ /\ ioRes' = Err("Invalid hex format")
          /\ bus' = Append(bus, Event(pc, "stdin", 0, <<>>, ioRes'))
          /\ UNCHANGED <<read_count, buf>>
       \/ \E values \in StdinValues :
             LET bytes_to_copy == Min(Len(values), ioOp.cap)
             IN  /\ read_count' = read_count + 1
                 /\ buf' = Filled(buf, bytes_to_copy, values)
                 /\ ioRes' = Ok(bytes_to_copy)
                 /\ bus' = Append(bus, Event(pc, "stdin", 0,
                                             SubSeq(values, 1, bytes_to_copy),
                                             ioRes'))
    /\ ioStage' = "ret"
    /\ UNCHANGED <<pc, drv, cmd, in_ept_addr, out_ept_addr, write_count, ioOp,
                   draining, opStart, drainStart, statusRes,
                   calls>>

---------------------------------------------------------------------------
(* printer.rs: UsbDriver, one action per transfer asked of the device. *)

\* drain(): let mut _buf = [0u8; 16]; the first self.read(&mut _buf)
UsbDrainEnter ==
    /\ drv = "Usb"
    /\ ioStage = "call"
    /\ ioOp.op = "drain"
    /\ draining' = TRUE
    /\ drainStart' = Len(bus)
    /\ Call("drain", ReadOp(16, "scratch"))
    /\ UNCHANGED <<pc, drv, cmd, in_ept_addr, out_ept_addr, write_count,
                   read_count, ioRes, buf, statusRes, bus>>

\* drain(): while self.read(&mut _buf)? != 0 {} ; Ok(())
UsbDrainLoop ==
    /\ drv = "Usb"
    /\ ioStage = "ret"
    /\ draining
    /\ IF DrainContinues(ioRes)
       THEN /\ Call("drain", ioOp)
            /\ UNCHANGED <<draining, ioRes>>
       ELSE /\ draining' = FALSE
            /\ ioOp' = DrainOp
            /\ ioRes' = IF ioRes.ok THEN Ok(0) ELSE ioRes
            /\ UNCHANGED <<ioStage, opStart, calls>>
    /\ UNCHANGED <<pc, drv, cmd, in_ept_addr, out_ept_addr, write_count,
                   read_count, drainStart, buf, statusRes, bus>>

\* _io_with_retry: the first io_func()
UsbTransfer ==
    /\ drv = "Usb"
    /\ ioStage = "call"
    /\ ioOp.op \in {"read", "write"}
    /\ \E r \in DeviceResults, reply \in Replies :
          LET next == AfterFirst(r)
          IN  /\ bus' = Append(bus, Event(pc, BulkKind, UsbEpt,
                                          Carried(r, reply), r))
              /\ ioStage' = next.stage
              /\ ioRes' = IF next.stage = "ret"
                          THEN UsbReturn(ioOp, next.res) ELSE ioRes
              /\ buf' = BufAfter(r, reply)
    /\ UNCHANGED <<pc, drv, cmd, in_ept_addr, out_ept_addr, write_count,
                   read_count, ioOp, draining, opStart, drainStart,
                   statusRes,
                   calls>>

\* _io_with_retry: self.dev.clear_halt(ept_addr), then the sleep
UsbClearHalt ==
    /\ drv = "Usb"
    /\ ioStage = "clear"
    /\ \E c \in {Ok(0)} \cup {Err(e) : e \in UsbErrors} :
          LET next == AfterClear(c)
          IN  /\ bus' = Append(bus, Event(pc, "clear_halt", UsbEpt, <<>>, c))
              /\ ioStage' = next.stage
              /\ ioRes' = IF next.stage = "ret"
                          THEN UsbReturn(ioOp, next.res) ELSE ioRes
    /\ UNCHANGED <<pc, drv, cmd, in_ept_addr, out_ept_addr, write_count,
                   read_count, ioOp, draining, opStart, drainStart, buf,
                   statusRes,
                   calls>>

\* _io_with_retry: the second io_func()
UsbRetry ==
    /\ drv = "Usb"
    /\ ioStage = "retry"
    /\ \E r \in DeviceResults, reply \in Replies :
          LET next == AfterRetry(r)
          IN  /\ bus' = Append(bus, Event(pc, BulkKind, UsbEpt,
                                          Carried(r, reply), r))
              /\ ioStage' = next.stage
              /\ ioRes' = IF next.stage = "ret"
                          THEN UsbReturn(ioOp, next.res) ELSE ioRes
              /\ buf' = BufAfter(r, reply)
    /\ UNCHANGED <<pc, drv, cmd, in_ept_addr, out_ept_addr, write_count,
                   read_count, ioOp, draining, opStart, drainStart,
                   statusRes,
                   calls>>

---------------------------------------------------------------------------
(* The program: main() opens the printer and runs one command. *)

Next ==
    \/ OpenDebug
    \/ OpenUsb
    \/ InitAfterDrain
    \/ InitAfterInit
    \/ InitAfterAsb
    \/ RunStatus
    \/ StatusAfterWrite
    \/ StatusAfterRead
    \/ RunPrint
    \/ RunPrintMd
    \/ PrintAfterWrite
    \/ CutAfterWrite
    \/ DebugDrain
    \/ DebugWrite
    \/ DebugRead
    \/ UsbDrainEnter
    \/ UsbDrainLoop
    \/ UsbTransfer
    \/ UsbClearHalt
    \/ UsbRetry

Spec == Init /\ [][Next]_vars

---------------------------------------------------------------------------
(* The decoder alone: PrinterStatus::from_bytes applied to a snapshot.     *)

\* every byte on the template (bits 2, 3, 5, 6 free) and bytes off it
SampleBytes ==
    {18 + 4 * a + 8 * b + 32 * c + 64 * d :
        a \in {0, 1}, b \in {0, 1}, c \in {0, 1}, d \in {0, 1}}
    \cup {0, 255, 146, 2, 16, 19}

InitDecode ==
    /\ pc = "decode"
    /\ drv = "Debug"
    /\ cmd = [kind |-> "Status", md |-> FALSE, content |-> <<>>, doc |-> NoDoc]
    /\ in_ept_addr = 0
    /\ out_ept_addr = 0
    /\ write_count = 0
    /\ read_count = 0
    /\ ioStage = "idle"
    /\ ioOp = NoOp
    /\ ioRes = Ok(4)
    /\ draining = FALSE
    /\ opStart = 0
    /\ drainStart = 0
    /\ buf \in [1..4 -> SampleBytes]
    /\ statusRes = NotYet
    /\ bus = <<>>
    /\ calls = <<>>

\* PrinterStatus::from_bytes(&buf)
Decode ==
    /\ pc = "decode"
    /\ statusRes' = from_bytes(buf)
    /\ pc' = "decoded"
    /\ UNCHANGED <<drv, cmd, in_ept_addr, out_ept_addr, write_count,
                   read_count, ioStage, ioOp, ioRes, draining, opStart,
                   drainStart, buf, bus,
                   calls>>

NextDecode == Decode

SpecDecode == InitDecode /\ [][NextDecode]_vars

\* the 16 bytes on the template: bits 2, 3, 5, 6 free
TemplateBytes ==
    {18 + 4 * a + 8 * b + 32 * c + 64 * d :
        a \in {0, 1}, b \in {0, 1}, c \in {0, 1}, d \in {0, 1}}

\* bytes put around a byte that runs over all of u8
FillBytes == {18, 126, 0}

\* every snapshot on the template, and every value of u8 in every position
\* next to on- and off-template bytes
WideSnapshots ==
    [1..4 -> TemplateBytes]
    \cup {[f EXCEPT ![i] = b] :
             f \in [1..4 -> FillBytes], i \in 1..4, b \in 0..255}

InitDecodeWide ==
    /\ pc = "decode"
    /\ drv = "Debug"
    /\ cmd = [kind |-> "Status", md |-> FALSE, content |-> <<>>, doc |-> NoDoc]
    /\ in_ept_addr = 0
    /\ out_ept_addr = 0
    /\ write_count = 0
    /\ read_count = 0
    /\ ioStage = "idle"
    /\ ioOp = NoOp
    /\ ioRes = Ok(4)
    /\ draining = FALSE
    /\ opStart = 0
    /\ drainStart = 0
    /\ buf \in WideSnapshots
    /\ statusRes = NotYet
    /\ bus = <<>>
    /\ calls = <<>>

SpecDecodeWide == InitDecodeWide /\ [][NextDecode]_vars

---------------------------------------------------------------------------
(* The encoders alone: one call of a command encoder of escpos.rs, its     *)
(* arguments in cmd, the Vec<u8> it returns in buf.                        *)

\* every value of u8
U8 == 0..255

\* the calls the types admit: every u8 pair for CMD_CHAR_SIZE, every variant
\* of the enums, both bools
EncodeCalls ==
    {[kind |-> k] : k \in {"CMD_INIT", "CMD_DISABLE_ASB", "CMD_CUT"}}
    \cup {[kind |-> "CMD_RT_STATUS", req |-> r] :
             r \in {"PrinterStatus", "OfflineCause", "ErrorCause",
                    "PaperStatus"}}
    \cup {[kind |-> k, enable |-> e] :
             k \in {"CMD_BOLD", "CMD_UNDERLINE"}, e \in BOOLEAN}
    \cup {[kind |-> "CMD_CHAR_SIZE", h_magnify |-> h, w_magnify |-> w] :
             h \in U8, w \in U8}
    \cup {[kind |-> "CMD_JUSTIFY", req |-> r] :
             r \in {"Left", "Center", "Right"}}

InitEncode ==
    /\ pc = "encode"
    /\ drv = "Debug"
    /\ cmd \in EncodeCalls
    /\ in_ept_addr = 0
    /\ out_ept_addr = 0
    /\ write_count = 0
    /\ read_count = 0
    /\ ioStage = "idle"
    /\ ioOp = NoOp
    /\ ioRes = Ok(0)
    /\ draining = FALSE
    /\ opStart = 0
    /\ drainStart = 0
    /\ buf = <<>>
    /\ statusRes = NotYet
    /\ bus = <<>>
    /\ calls = <<>>

\* the encoder called returns `bytes`
EncodeReturns(bytes) ==
    /\ pc = "encode"
    /\ buf' = bytes
    /\ pc' = "encoded"
    /\ UNCHANGED <<drv, cmd, in_ept_addr, out_ept_addr, write_count,
                   read_count, ioStage, ioOp, ioRes, draining, opStart,
                   drainStart, statusRes, bus, calls>>

EncodeInit == cmd.kind = "CMD_INIT" /\ EncodeReturns(CMD_INIT)

EncodeRtStatus ==
    /\ cmd.kind = "CMD_RT_STATUS"
    /\ EncodeReturns(CMD_RT_STATUS(RtStatusReq[cmd.req]))

EncodeDisableAsb ==
    cmd.kind = "CMD_DISABLE_ASB" /\ EncodeReturns(CMD_DISABLE_ASB)

EncodeCut == cmd.kind = "CMD_CUT" /\ EncodeReturns(CMD_CUT)

EncodeBold == cmd.kind = "CMD_BOLD" /\ EncodeReturns(CMD_BOLD(cmd.enable))

EncodeUnderline ==
    cmd.kind = "CMD_UNDERLINE" /\ EncodeReturns(CMD_UNDERLINE(cmd.enable))

EncodeCharSize ==
    /\ cmd.kind = "CMD_CHAR_SIZE"
    /\ EncodeReturns(CMD_CHAR_SIZE(cmd.h_magnify, cmd.w_magnify))

EncodeJustify ==
    /\ cmd.kind = "CMD_JUSTIFY"
    /\ EncodeReturns(CMD_JUSTIFY(JustifyReq[cmd.req]))

NextEncode ==
    \/ EncodeInit
    \/ EncodeRtStatus
    \/ EncodeDisableAsb
    \/ EncodeCut
    \/ EncodeBold
    \/ EncodeUnderline
    \/ EncodeCharSize
    \/ EncodeJustify

SpecEncode == InitEncode /\ [][NextEncode]_vars

---------------------------------------------------------------------------
(* The compiler alone: to_mdast builds a tree node by node, then one call  *)
(* of EscposMarkdown::compile_node runs on it; the tree in cmd.doc, the    *)
(* buffer as it was handed in in cmd.content, the buffer worked on in buf. *)

\* text.value of the Text nodes
\* (the last one is a text that holds the bytes of ESC E 1: the characters
\* of the file reach text.value as they are)
TextValues == {<<97>>, <<98, 99>>, <<27, 69, 1>>}

\* the node kinds that carry children, with the depth of a heading;
\* Emphasis stands for the kinds compile_node has no arm for
InnerKinds ==
    {[kind |-> k, depth |-> 0] : k \in {"Paragraph", "Strong", "Emphasis"}}
    \cup {[kind |-> "Heading", depth |-> d] : d \in 1..4}

\* a node as the parser opens it, before it has children
NewNodes ==
    {Text(v) : v \in TextValues}
    \cup {Node(k.kind, k.depth, <<>>, <<>>) : k \in InnerKinds}

\* the node a tree starts from; a Root only at the top
FirstNodes == NewNodes \cup {Node("Root", 0, <<>>, <<>>)}

\* buffers compile_node may be handed: the empty one of compile(), and one
\* that already holds a byte
StartBufs == {<<>>, <<33>>}

\* number of nodes of a tree
RECURSIVE Size(_)
RECURSIVE SizeAll(_)
Size(node) == 1 + SizeAll(node.children)

SizeAll(children) ==
    IF children = <<>> THEN 0
    ELSE Size(Head(children)) + SizeAll(Tail(children))

\* the levels of the last branch of a tree at which a child can be appended
\* (a Text has no children)
RECURSIVE OpenDepths(_)
OpenDepths(node) ==
    IF node.kind = "Text" THEN {}
    ELSE {0} \cup (IF node.children = <<>> THEN {}
                   ELSE {d + 1 : d \in
                            OpenDepths(node.children[Len(node.children)])})

\* `child` appended below the node at level d of the last branch
RECURSIVE AppendAt(_, _, _)
AppendAt(node, d, child) ==
    IF d = 0 THEN [node EXCEPT !.children = Append(@, child)]
    ELSE [node EXCEPT !.children[Len(node.children)] =
                          AppendAt(@, d - 1, child)]

\* trees handed in with a non-empty buffer stay one node smaller
NodeLimit == IF cmd.content = <<>> THEN MaxNodes ELSE MaxNodes - 1

InitCompile ==
    /\ pc = "parse"
    /\ drv = "Debug"
    /\ cmd \in {[kind |-> "Compile", md |-> TRUE, content |-> c, doc |-> n] :
                   c \in StartBufs, n \in FirstNodes}
    /\ in_ept_addr = 0
    /\ out_ept_addr = 0
    /\ write_count = 0
    /\ read_count = 0
    /\ ioStage = "idle"
    /\ ioOp = NoOp
    /\ ioRes = Ok(0)
    /\ draining = FALSE
    /\ opStart = 0
    /\ drainStart = 0
    /\ buf = cmd.content
    /\ statusRes = NotYet
    /\ bus = <<>>
    /\ calls = <<>>

\* to_mdast: the tree gets its next node, in document order
ParseNode ==
    /\ pc = "parse"
    /\ Size(cmd.doc) < NodeLimit
    /\ \E d \in OpenDepths(cmd.doc), child \in NewNodes :
          cmd' = [cmd EXCEPT !.doc = AppendAt(@, d, child)]
    /\ UNCHANGED <<pc, drv, in_ept_addr, out_ept_addr, write_count,
                   read_count, ioStage, ioOp, ioRes, draining, opStart,
                   drainStart, buf, statusRes, bus, calls>>

\* self.compile_node(&node, &mut buf) on the finished tree
CompileNode ==
    /\ pc = "parse"
    /\ buf' = compile_node(cmd.doc, buf)
    /\ pc' = "compiled"
    /\ UNCHANGED <<drv, cmd, in_ept_addr, out_ept_addr, write_count,
                   read_count, ioStage, ioOp, ioRes, draining, opStart,
                   drainStart, statusRes, bus, calls>>

NextCompile == ParseNode \/ CompileNode

SpecCompile == InitCompile /\ [][NextCompile]_vars

---------------------------------------------------------------------------
(* Properties of the status decoder, checked under SpecDecode. *)

\* bit k of byte b
Bit(b, k) == (b \div (2 ^ k)) % 2

\* the fixed bits of a status byte: bit 7 = 0, bit 4 = 1, bit 1 = 1, bit 0 = 0
OnTemplate(b) ==
    Bit(b, 7) = 0 /\ Bit(b, 4) = 1 /\ Bit(b, 1) = 1 /\ Bit(b, 0) = 0

Decoded == pc = "decoded"

\* C1: a snapshot with at least one byte off the template
\* (b & 0b10010011) == 0b00010010 decodes to None, never to a status.
C1_OffTemplateIsNone ==
    (Decoded /\ \E i \in 1..4 : ~OnTemplate(buf[i])) => statusRes = None

\* only the last byte is off the template, and the decoder has answered None
C1_Witness ==
    /\ Decoded
    /\ \A i \in 1..3 : OnTemplate(buf[i])
    /\ ~OnTemplate(buf[4])
    /\ statusRes = None

\* C2: in every status from_bytes returns, offline_cause is absent when
\* is_online is true and present when is_online is false, whatever the
\* offlineCause and errorCause bytes carry.
C2_OfflineCauseIffOffline ==
    (Decoded /\ statusRes.some) =>
        /\ statusRes.val.is_online => statusRes.val.offline_cause = None
        /\ ~statusRes.val.is_online => statusRes.val.offline_cause.some

\* online although the offlineCause byte carries cover-open, paper-empty and
\* error bits and the errorCause byte carries error bits
C2_Witness ==
    /\ Decoded
    /\ statusRes.some
    /\ statusRes.val.is_online
    /\ buf[2] = 118
    /\ buf[3] = 126
    /\ statusRes.val.offline_cause = None

\* C11: for every template-valid snapshot the paper status is NotPresent when
\* a paper-out bit (bits 5, 6) of the paperStatus byte is set, whatever the
\* near-end bits are; else NearEnd when a near-end bit (bits 2, 3) is set;
\* else Adequate.  It is a function of the paperStatus byte alone.
C11_PaperPriority ==
    (Decoded /\ \A i \in 1..4 : OnTemplate(buf[i])) =>
        /\ statusRes.some
        /\ statusRes.val.paper_status =
              IF Bit(buf[4], 5) = 1 \/ Bit(buf[4], 6) = 1 THEN "NotPresent"
              ELSE IF Bit(buf[4], 2) = 1 \/ Bit(buf[4], 3) = 1 THEN "NearEnd"
              ELSE "Adequate"

\* an online snapshot whose paperStatus byte has paper-out and near-end bits
\* set at once: the paper-out bits win
C11_Witness ==
    /\ Decoded
    /\ buf = <<18, 18, 18, 126>>
    /\ statusRes.some
    /\ statusRes.val.is_online
    /\ statusRes.val.paper_status = "NotPresent"

\* the snapshot is on the template in every byte and reports offline
OfflineSnapshot ==
    /\ \A i \in 1..4 : OnTemplate(buf[i])
    /\ Bit(buf[1], 3) = 1

\* C12: for every template-valid offline snapshot the error sub-record of
\* offline_cause is present exactly when bit 6 of the offlineCause byte is
\* set, and then its flags are bits of the errorCause byte, each read on its
\* own: cutter = bit 3, fatal = bit 5, recoverable = bit 6.  Only the fatal
\* bit set gives fatal alone; cover open without the error bit gives no
\* error record.
C12_ErrorRecord ==
    /\ (Decoded /\ OfflineSnapshot) =>
          /\ statusRes.some
          /\ statusRes.val.offline_cause.some
          /\ statusRes.val.offline_cause.val.error.some <=> Bit(buf[2], 6) = 1
          /\ Bit(buf[2], 6) = 1 =>
                statusRes.val.offline_cause.val.error.val =
                    [is_cutter_err |-> Bit(buf[3], 3) = 1,
                     is_fatal_err |-> Bit(buf[3], 5) = 1,
                     is_recoverable_err |-> Bit(buf[3], 6) = 1]
    /\ (Decoded /\ buf = <<26, 82, 50, 18>>) =>
          statusRes.val.offline_cause.val.error =
              Some([is_cutter_err |-> FALSE, is_fatal_err |-> TRUE,
                    is_recoverable_err |-> FALSE])
    /\ (Decoded /\ buf = <<26, 22, 18, 18>>) =>
          /\ ~statusRes.val.is_online
          /\ statusRes.val.offline_cause.val.is_cover_open
          /\ statusRes.val.offline_cause.val.error = None

\* offline with the error bit set and the errorCause byte carrying the fatal
\* and the cutter bit but not the recoverable bit
C12_Witness ==
    /\ Decoded
    /\ buf[1] = 26
    /\ buf[2] = 82
    /\ buf[3] = 58
    /\ statusRes.some
    /\ statusRes.val.offline_cause.val.error =
          Some([is_cutter_err |-> TRUE, is_fatal_err |-> TRUE,
                is_recoverable_err |-> FALSE])

\* C13: for every template-valid snapshot is_online is the negation of bit 3
\* of the deviceStatus byte; when offline, is_cover_open is bit 2 and
\* is_paper_empty is bit 5 of the offlineCause byte; 12 12 12 12 decodes to
\* online, paper adequate, no offline cause.
C13_OnlineAndCauseBits ==
    /\ (Decoded /\ \A i \in 1..4 : OnTemplate(buf[i])) =>
          /\ statusRes.some
          /\ statusRes.val.is_online <=> Bit(buf[1], 3) = 0
          /\ Bit(buf[1], 3) = 1 =>
                /\ statusRes.val.offline_cause.some
                /\ statusRes.val.offline_cause.val.is_cover_open
                      <=> Bit(buf[2], 2) = 1
                /\ statusRes.val.offline_cause.val.is_paper_empty
                      <=> Bit(buf[2], 5) = 1
    /\ (Decoded /\ buf = <<18, 18, 18, 18>>) =>
          statusRes = Some([is_online |-> TRUE, paper_status |-> "Adequate",
                            offline_cause |-> None])

\* offline with bit 2 of the deviceStatus byte clear, paper empty and the
\* cover closed
C13_Witness ==
    /\ Decoded
    /\ buf[1] = 26
    /\ buf[2] = 50
    /\ statusRes.some
    /\ ~statusRes.val.is_online
    /\ statusRes.val.offline_cause.val.is_paper_empty
    /\ ~statusRes.val.offline_cause.val.is_cover_open

\* C20: from_bytes returns a status for every snapshot whose four bytes are
\* all on the template, and None exactly when some byte is off it; it has a
\* result for every snapshot.  Checked under SpecDecodeWide.
C20_NoneIffOffTemplate ==
    Decoded =>
        /\ statusRes = None <=> \E i \in 1..4 : ~OnTemplate(buf[i])
        /\ statusRes # None =>
              /\ statusRes.some
              /\ statusRes.val.is_online \in BOOLEAN
              /\ statusRes.val.paper_status
                    \in {"Adequate", "NearEnd", "NotPresent"}

\* every free bit of every byte is set and a status comes back
C20_Witness ==
    /\ Decoded
    /\ buf = <<126, 126, 126, 126>>
    /\ statusRes.some

---------------------------------------------------------------------------
(* Properties of UsbDriver, checked under Spec. *)

\* a read or write of the USB driver is in progress or has just returned;
\* OpEvents are then the transfers of that one call
UsbOp ==
    /\ drv = "Usb"
    /\ ioOp.op \in {"read", "write"}
    /\ ioStage \in {"call", "clear", "retry", "ret"}

\* the first transfer attempt of the call failed with a pipe stall
FirstStalled ==
    /\ Len(OpEvents) >= 1
    /\ IsXfer(OpEvents[1])
    /\ ~OpEvents[1].res.ok
    /\ OpEvents[1].res.err = "Pipe"

\* C3 as stated: after a stalled first attempt the call makes exactly one
\* clear-halt and exactly one retry, and a failed retry is returned.
C3_Original ==
    (UsbOp /\ ioStage = "ret" /\ FirstStalled) =>
        /\ NumClears(OpEvents) = 1
        /\ NumXfers(OpEvents) = 2
        /\ ~OpEvents[Len(OpEvents)].res.ok => ~ioRes.ok

\* C3 (amended): after a stalled first attempt the driver calls clear-halt
\* once, on the endpoint that stalled; if the clear-halt succeeds it makes
\* exactly one retry of the same transfer, and if the clear-halt fails that
\* error is returned without a retry; a failed retry is returned to the
\* caller, with no third attempt and no second clear-halt.
C3_StallRecovery ==
    (UsbOp /\ FirstStalled) =>
        LET ev == OpEvents
        IN  /\ ioStage # "call"
            /\ Len(ev) <= 3
            /\ ev[1].ept = UsbEpt
            /\ ioStage = "clear" => Len(ev) = 1
            /\ Len(ev) >= 2 => IsClear(ev[2]) /\ ev[2].ept = ev[1].ept
            /\ ioStage = "retry" => Len(ev) = 2 /\ ev[2].res.ok
            /\ ioStage = "ret" =>
                 /\ Len(ev) >= 2
                 /\ ev[2].res.ok =>
                      /\ Len(ev) = 3
                      /\ ev[3].kind = ev[1].kind
                      /\ ev[3].ept = ev[1].ept
                      /\ ~ev[3].res.ok => ioRes = Err("Failed to retry")
                 /\ ~ev[2].res.ok =>
                      /\ Len(ev) = 2
                      /\ ioRes = Err("Failed to clear halt")

\* a write stalled, the halt was cleared, the retry stalled again and the
\* call has returned
C3_Witness ==
    /\ UsbOp
    /\ ioOp.op = "write"
    /\ ioStage = "ret"
    /\ FirstStalled
    /\ Len(OpEvents) = 3
    /\ ~OpEvents[3].res.ok
    /\ OpEvents[3].res.err = "Pipe"
    /\ ~ioRes.ok

\* C4: one USB read or write makes at most 2 transfer attempts and at most
\* 1 clear-halt; a second attempt happens only after a stalled first attempt
\* and a successful clear-halt; a first failure other than a stall, and a
\* failed clear-halt, are returned as errors with nothing further done.
C4_BoundedRetry ==
    UsbOp =>
        LET ev == OpEvents
        IN  /\ NumXfers(ev) <= 2
            /\ NumClears(ev) <= 1
            /\ Len(ev) = NumXfers(ev) + NumClears(ev)
            /\ NumClears(ev) = 1 => FirstStalled /\ IsClear(ev[2])
            /\ NumXfers(ev) = 2 =>
                 FirstStalled /\ IsClear(ev[2]) /\ ev[2].res.ok /\ IsXfer(ev[3])
            /\ (Len(ev) >= 1 /\ ~ev[1].res.ok /\ ev[1].res.err # "Pipe") =>
                 Len(ev) = 1 /\ ioStage = "ret" /\ ioRes = Err("I/O error")
            /\ (Len(ev) >= 2 /\ IsClear(ev[2]) /\ ~ev[2].res.ok) =>
                 Len(ev) = 2 /\ ioStage = "ret" /\ ~ioRes.ok

\* a read that needed both attempts: stall, clear-halt, successful retry
C4_Witness ==
    /\ UsbOp
    /\ ioOp.op = "read"
    /\ ioStage = "ret"
    /\ NumXfers(OpEvents) = 2
    /\ NumClears(OpEvents) = 1
    /\ ioRes.ok

\* a bulk write that reported fewer bytes than it was given
IsPartialWrite(e) ==
    e.kind = "write_bulk" /\ e.res.ok /\ e.res.n < Len(e.data)

\* C5: UsbDriver::write returns success only when the transfer reported
\* exactly data.len() bytes; a first or retried transfer that succeeds with
\* fewer bytes gives a "Partial write" error, and no transfer follows it.
C5_PartialWriteIsError ==
    /\ (UsbOp /\ ioOp.op = "write" /\ ioStage = "ret") =>
          LET last == OpEvents[Len(OpEvents)]
          IN  /\ ioRes.ok =>
                   /\ last.kind = "write_bulk"
                   /\ last.res.ok
                   /\ last.res.n = Len(ioOp.data)
                   /\ ioRes.n = Len(ioOp.data)
              /\ IsPartialWrite(last) => ioRes = Err("Partial write")
    /\ \A i \in 1..Len(bus) : IsPartialWrite(bus[i]) => i = Len(bus)

\* the retried transfer of a write of at least 2 bytes went through in part
C5_Witness ==
    /\ UsbOp
    /\ ioOp.op = "write"
    /\ ioStage = "ret"
    /\ Len(OpEvents) = 3
    /\ IsPartialWrite(OpEvents[3])
    /\ OpEvents[3].res.n >= 1
    /\ ioRes = Err("Partial write")

\* a read at `drain` that returned zero bytes
IsZeroDrainRead(e) ==
    e.site = "drain" /\ e.kind = "read_bulk" /\ e.res.ok /\ e.res.n = 0

IsDrainReadCall(c) == c.site = "drain" /\ c.op.op = "read"

\* C6: UsbDriver::drain reads one after another and stops at the first read
\* that returns zero bytes: it returns success exactly then and reads no
\* more; a read error ends it with that error; a further read is issued only
\* after a read that returned a non-zero count.
C6_DrainStopsAtZeroRead ==
    drv = "Usb" =>
        /\ \A i \in 1..Len(bus) :
              IsZeroDrainRead(bus[i]) =>
                  \A j \in (i + 1)..Len(bus) : bus[j].site # "drain"
        /\ (draining /\ ioStage = "call" /\ Len(bus) > drainStart) =>
              IsNonEmptyRead(bus[Len(bus)])
        /\ (pc = "drain" /\ Returned) =>
              /\ Len(bus) > drainStart
              /\ ioRes.ok <=> IsZeroDrainRead(bus[Len(bus)])
              /\ ~ioRes.ok <=> ~bus[Len(bus)].res.ok
              /\ Len(SelectSeq(calls, IsDrainReadCall))
                    = NumNonEmptyReads(DrainEvents) + 1
        /\ pc \notin {"main", "drain", "exit1"} =>
              \E i \in 1..Len(bus) : IsZeroDrainRead(bus[i])

\* drain returned success after two non-empty reads and a zero-length one
C6_Witness ==
    /\ drv = "Usb"
    /\ pc = "drain"
    /\ Returned
    /\ ioRes.ok
    /\ NumNonEmptyReads(DrainEvents) >= 2
    /\ IsZeroDrainRead(bus[Len(bus)])

---------------------------------------------------------------------------
(* Properties of the Printer controller and main, checked under Spec. *)

IsWriteCall(c) == c.op.op = "write"

\* the write calls made on the driver, in order
WriteCalls == SelectSeq(calls, IsWriteCall)

\* bus[i] is a write at `site` that carried `bytes` and transmitted them all
WroteAll(i, site, bytes) ==
    /\ IsWrite(bus[i])
    /\ bus[i].site = site
    /\ bus[i].data = bytes
    /\ bus[i].res.ok
    /\ bus[i].res.n = Len(bytes)

\* a Printer value exists: Printer::new has returned Ok
Opened ==
    pc \in {"ready", "st_write", "st_read", "print", "cut", "done", "err",
            "panic"}

\* C7: opening performs drain, then the write of init (1B 40), then the write
\* of disable-auto-status-back (1D 61 00); init is the first command written
\* to the transport and nothing of status, print or cut is written before
\* both open-time writes have succeeded.
C7_OpenOrder ==
    /\ calls # <<>> => calls[1] = [site |-> "drain", op |-> DrainOp]
    /\ Len(WriteCalls) >= 1 =>
          WriteCalls[1] = [site |-> "init", op |-> WriteOp(<<27, 64>>)]
    /\ Len(WriteCalls) >= 2 =>
          WriteCalls[2] = [site |-> "asb", op |-> WriteOp(<<29, 97, 0>>)]
    /\ \A j \in 1..Len(bus) :
          bus[j].site = "drain" =>
              \A i \in 1..(j - 1) : bus[i].site = "drain"
    /\ \A j \in 1..Len(bus) :
          IsWrite(bus[j]) =>
              /\ (\A i \in 1..(j - 1) : ~IsWrite(bus[i])) =>
                    bus[j].site = "init" /\ bus[j].data = <<27, 64>>
              /\ bus[j].site = "asb" =>
                    \E i \in 1..(j - 1) : WroteAll(i, "init", <<27, 64>>)
              /\ bus[j].site \notin {"init", "asb"} =>
                    \E i, k \in 1..(j - 1) :
                        /\ i < k
                        /\ WroteAll(i, "init", <<27, 64>>)
                        /\ WroteAll(k, "asb", <<29, 97, 0>>)
    /\ Opened =>
          \E i, k \in 1..Len(bus) :
              /\ i < k
              /\ WroteAll(i, "init", <<27, 64>>)
              /\ WroteAll(k, "asb", <<29, 97, 0>>)

\* a USB session that drained, opened, printed and cut
C7_Witness ==
    /\ drv = "Usb"
    /\ pc = "done"
    /\ cmd.kind = "Print"
    /\ bus[1].site = "drain"
    /\ \E j \in 1..Len(bus) : bus[j].site = "cut" /\ bus[j].data = CMD_CUT

OpenSites == {"drain", "init", "asb"}

\* Printer::new returned an error and main exited
C8_Failed ==
    pc = "exit1" =>
        /\ statusRes = NotYet
        /\ \A i \in 1..Len(bus) : bus[i].site \in OpenSites
        /\ \A i \in 1..Len(calls) : calls[i].site \in OpenSites
        /\ bus = <<>> => calls = <<>>
        /\ bus # <<>> =>
              /\ ~ioRes.ok
              /\ ~bus[Len(bus)].res.ok \/ IsPartialWrite(bus[Len(bus)])
              /\ bus[Len(bus)].site = "drain" =>
                    NumWrites(bus) = 0 /\ WriteCalls = <<>>
              /\ bus[Len(bus)].site = "init" =>
                    /\ \A i \in 1..Len(bus) : bus[i].site # "asb"
                    /\ Len(WriteCalls) = 1

\* a step taken when an open-time call has returned an error
C8_FailStep ==
    (pc \in OpenSites /\ Returned /\ ~ioRes.ok) =>
        pc' = "exit1" /\ bus' = bus /\ calls' = calls /\ ioRes' = ioRes

\* a step taken after the failed open
C8_AfterExit == pc = "exit1" => pc' = "exit1" /\ bus' = bus /\ calls' = calls

\* C8: when drain, the init write or the disable-auto-status-back write fails
\* during open, open returns that error, none of the remaining open steps
\* runs (after a failed drain nothing is written, after a failed init write
\* disable-auto-status-back is not written), no Printer is produced and
\* nothing reaches the transport afterwards.
C8_OpenFailureStops == []C8_Failed /\ [][C8_FailStep /\ C8_AfterExit]_vars

\* the init write went through in part, open failed, asb was never written
C8_Witness ==
    /\ pc = "exit1"
    /\ bus # <<>>
    /\ bus[Len(bus)].site = "init"
    /\ ioRes = Err("Partial write")

\* the status poll is over: status() returned or the process aborted in it
StatusOver == cmd.kind = "Status" /\ pc \in {"done", "panic"}

\* C9: status() returns None whenever the status-request write fails, the
\* reply read fails or the read delivers fewer than 4 bytes; it neither
\* returns a decoded status nor aborts the program.
C9_StatusFailureIsNone ==
    /\ pc # "panic"
    /\ (StatusOver /\ (~ioRes.ok \/ ioRes.n < 4)) => statusRes = None

IsStatusWriteCall(c) == c.site = "st_write"

IsStatusReadCall(c) == c.site = "st_read"

IsStatusCall(c) == c.site \in {"st_write", "st_read"}

\* the twelve bytes 10 04 01 10 04 02 10 04 03 10 04 04
StatusRequestBytes == <<16, 4, 1, 16, 4, 2, 16, 4, 3, 16, 4, 4>>

---------------------------------------------------------------------------
(* Properties of the print flow, checked under Spec. *)

\* the calls made on the driver from print / print_md, and from cut
PrintCalls == {i \in 1..Len(calls) : calls[i].site = "print"}

CutCalls == {i \in 1..Len(calls) : calls[i].site = "cut"}

\* the transfers asked of the device during print, and during cut
PrintEvents == {i \in 1..Len(bus) : bus[i].site = "print"}

CutEvents == {i \in 1..Len(bus) : bus[i].site = "cut"}

\* the bytes print or print_md hands to the driver
PrintPayload == IF cmd.md THEN compile(cmd.doc).bytes ELSE cmd.content

\* the last transfer of a set of transfers carried all of `data`
LastWroteAll(events, data) ==
    /\ events # {}
    /\ LET last == CHOOSE i \in events : \A j \in events : j <= i
       IN  /\ IsWrite(bus[last])
           /\ bus[last].res.ok
           /\ bus[last].res.n = Len(data)

\* the shape of the history at every point of the print flow
C17_Flow ==
    /\ \A i \in PrintCalls : calls[i].op = WriteOp(PrintPayload)
    /\ \A i \in CutCalls : calls[i].op = WriteOp(<<29, 86, 66, 0>>)
    /\ \A i \in PrintEvents \cup CutEvents : ~IsRead(bus[i])
    /\ Cardinality(PrintCalls) <= 1
    /\ Cardinality(CutCalls) <= 1
    /\ pc \in {"print", "cut", "done"} /\ cmd.kind = "Print" =>
          Cardinality(PrintCalls) = 1
    /\ pc \in {"cut", "done"} /\ cmd.kind = "Print" =>
          Cardinality(CutCalls) = 1
    /\ CutCalls # {} =>
          /\ PrintCalls # {}
          /\ \A i \in PrintCalls, j \in CutCalls : i < j
          /\ \A i \in PrintEvents, j \in CutEvents : i < j
          /\ LastWroteAll(PrintEvents, PrintPayload)
    /\ pc = "done" /\ cmd.kind = "Print" =>
          LastWroteAll(CutEvents, <<29, 86, 66, 0>>)
    /\ pc = "err" =>
          /\ cmd.kind = "Print"
          /\ PrintCalls = {} => cmd.md /\ ~compile(cmd.doc).ok
          /\ PrintCalls # {} =>
                /\ ~ioRes.ok
                /\ CutCalls = {} => ~LastWroteAll(PrintEvents, PrintPayload)
                /\ CutCalls # {} =>
                      ~LastWroteAll(CutEvents, <<29, 86, 66, 0>>)

\* a step taken when the print write has returned
C17_PrintStep ==
    (pc = "print" /\ Returned) =>
        /\ bus' = bus
        /\ ioRes' = ioRes
        /\ ioRes.ok =>
              /\ pc' = "cut"
              /\ calls' = Append(calls, [site |-> "cut",
                                          op |-> WriteOp(<<29, 86, 66, 0>>)])
        /\ ~ioRes.ok => pc' = "err" /\ calls' = calls

\* a step taken when the cut write has returned
C17_CutStep ==
    (pc = "cut" /\ Returned) =>
        /\ bus' = bus
        /\ calls' = calls
        /\ ioRes' = ioRes
        /\ pc' = IF ioRes.ok THEN "done" ELSE "err"

\* a step taken after the flow has ended
C17_AfterEnd ==
    (pc \in {"done", "err"} /\ cmd.kind = "Print") =>
        pc' = pc /\ bus' = bus /\ calls' = calls

\* C17: in the print flow each of print and cut makes exactly one write call
\* on the driver and no read; cut is written only after the print write
\* succeeded; when the print write fails that error is returned and no cut
\* is written; when the cut write fails its error is returned and the
\* payload is not written again.
C17_PrintThenCut ==
    []C17_Flow /\ [][C17_PrintStep /\ C17_CutStep /\ C17_AfterEnd]_vars

\* on USB the payload went out whole, then the cut write failed: the flow
\* ended with that error, one print call and one cut call made
C17_Witness ==
    /\ pc = "err"
    /\ drv = "Usb"
    /\ Cardinality(PrintCalls) = 1
    /\ Cardinality(CutCalls) = 1
    /\ LastWroteAll(PrintEvents, PrintPayload)
    /\ ~ioRes.ok

---------------------------------------------------------------------------
(* Properties of the command encoders, checked under SpecEncode. *)

Encoded == pc = "encoded"

\* C14: for all h, w in 0..255 CMD_CHAR_SIZE(h, w) is 1D 21 p with
\* p = (min(w, 8) << 4) | min(h, 8), a value of 8 bits reached without
\* wrap-around: the high nibble is min(w, 8), the low nibble is min(h, 8),
\* and an argument above 8 gives the bytes of 8 (CMD_CHAR_SIZE(10, 0) is
\* CMD_CHAR_SIZE(8, 0)).
C14_CharSizeClamped ==
    (Encoded /\ cmd.kind = "CMD_CHAR_SIZE") =>
        LET h == IF cmd.h_magnify > 8 THEN 8 ELSE cmd.h_magnify
            w == IF cmd.w_magnify > 8 THEN 8 ELSE cmd.w_magnify
        IN  /\ Len(buf) = 3
            /\ buf[1] = 29
            /\ buf[2] = 33
            /\ buf[3] = 16 * w + h
            /\ buf[3] \in 0..255
            /\ buf[3] % 16 = h
            /\ buf[3] \div 16 = w
            /\ (cmd.h_magnify = 10 /\ cmd.w_magnify = 0) => buf = <<29, 33, 8>>
            /\ (cmd.h_magnify = 8 /\ cmd.w_magnify = 0) => buf = <<29, 33, 8>>

\* both arguments far above 8: the packed byte is that of (8, 8)
C14_Witness ==
    /\ Encoded
    /\ cmd.kind = "CMD_CHAR_SIZE"
    /\ cmd.h_magnify = 255
    /\ cmd.w_magnify = 16
    /\ buf = <<29, 33, 136>>


\* C18: the encoders produce exactly these bytes for every parameter value:
\* init 1B 40; status request 10 04 k with k = 1, 2, 3, 4 for PrinterStatus,
\* OfflineCause, ErrorCause, PaperStatus; disable auto status back 1D 61 00;
\* cut 1D 56 42 00; bold 1B 45 e and underline 1B 2D e with e = 1 for true
\* and 0 for false; justify 1B 61 m with m = 0, 1, 2 for Left, Center, Right.
C18_EncoderBytes ==
    Encoded =>
        /\ cmd.kind = "CMD_INIT" => buf = <<27, 64>>
        /\ cmd.kind = "CMD_RT_STATUS" =>
              /\ cmd.req = "PrinterStatus" => buf = <<16, 4, 1>>
              /\ cmd.req = "OfflineCause" => buf = <<16, 4, 2>>
              /\ cmd.req = "ErrorCause" => buf = <<16, 4, 3>>
              /\ cmd.req = "PaperStatus" => buf = <<16, 4, 4>>
        /\ cmd.kind = "CMD_DISABLE_ASB" => buf = <<29, 97, 0>>
        /\ cmd.kind = "CMD_CUT" => buf = <<29, 86, 66, 0>>
        /\ cmd.kind = "CMD_BOLD" =>
              buf = <<27, 69, IF cmd.enable THEN 1 ELSE 0>>
        /\ cmd.kind = "CMD_UNDERLINE" =>
              buf = <<27, 45, IF cmd.enable THEN 1 ELSE 0>>
        /\ cmd.kind = "CMD_JUSTIFY" =>
              /\ cmd.req = "Left" => buf = <<27, 97, 0>>
              /\ cmd.req = "Center" => buf = <<27, 97, 1>>
              /\ cmd.req = "Right" => buf = <<27, 97, 2>>

\* justify(Right) has been encoded
C18_Witness ==
    /\ Encoded
    /\ cmd.kind = "CMD_JUSTIFY"
    /\ cmd.req = "Right"
    /\ buf = <<27, 97, 2>>


---------------------------------------------------------------------------
(* Properties of the markdown compiler, checked under SpecCompile. *)

Compiled == pc = "compiled"

\* what each node of a sequence compiles to on its own, one after the other
RECURSIVE EachCompiled(_)
EachCompiled(children) ==
    IF children = <<>> THEN <<>>
    ELSE compile_node(Head(children), <<>>) \o EachCompiled(Tail(children))

\* the bytes that switch the style of a heading on: character size with
\* height 1 and width 0, underline on then bold on, bold on, nothing
HeadingOn(depth) ==
    IF depth = 1 THEN <<29, 33, 1>>
    ELSE IF depth = 2 THEN <<27, 45, 1, 27, 69, 1>>
    ELSE IF depth = 3 THEN <<27, 69, 1>>
    ELSE <<>>

\* the bytes that switch it off: character size 0, underline off then bold
\* off, bold off, nothing
HeadingOff(depth) ==
    IF depth = 1 THEN <<29, 33, 0>>
    ELSE IF depth = 2 THEN <<27, 45, 0, 27, 69, 0>>
    ELSE IF depth = 3 THEN <<27, 69, 0>>
    ELSE <<>>

\* C15: compiling a heading of depth d appends, in this order, the
\* style-enable commands of d, the output of its children in order, the
\* style-disable commands of d and two newline bytes; depth 1 uses the
\* character-size command, depth 2 underline and bold, depth 3 bold, and
\* depth 4 and above no style command.
C15_HeadingOrder ==
    (Compiled /\ cmd.doc.kind = "Heading") =>
        buf = cmd.content \o HeadingOn(cmd.doc.depth)
                  \o EachCompiled(cmd.doc.children)
                  \o HeadingOff(cmd.doc.depth) \o <<10, 10>>

\* a depth-1 heading holding one text has been compiled
C15_Witness ==
    /\ Compiled
    /\ cmd.doc = Node("Heading", 1, <<>>, <<Text(<<97>>)>>)
    /\ cmd.content = <<>>
    /\ buf = <<29, 33, 1, 97, 29, 33, 0, 10, 10>>


\* the kinds compile_node has an arm for
Recognized(node) ==
    node.kind \in {"Root", "Paragraph", "Heading", "Text", "Strong"}

\* the tree without the nodes of any other kind and all below them
RECURSIVE Prune(_)
RECURSIVE PruneAll(_)
Prune(node) == [node EXCEPT !.children = PruneAll(@)]

PruneAll(children) ==
    IF children = <<>> THEN <<>>
    ELSE IF Recognized(Head(children))
    THEN <<Prune(Head(children))>> \o PruneAll(Tail(children))
    ELSE PruneAll(Tail(children))

\* C16: for a node whose kind is not root, paragraph, heading, text or
\* strong, compile_node leaves the buffer as it was: nothing is emitted for
\* the node or for anything below it.  A tree that holds such nodes compiles
\* to what it compiles to with them taken out, so the output of the
\* recognized siblings is unaffected.
C16_OtherKindsIgnored ==
    Compiled =>
        /\ ~Recognized(cmd.doc) => buf = cmd.content
        /\ Recognized(cmd.doc) =>
              buf = compile_node(Prune(cmd.doc), cmd.content)

\* a paragraph whose first child is an emphasis holding a text, followed by
\* a text: only the second text and the paragraph's newlines are emitted
C16_Witness ==
    /\ Compiled
    /\ cmd.doc = Node("Paragraph", 0, <<>>,
                       << Node("Emphasis", 0, <<>>, <<Text(<<98, 99>>)>>),
                          Text(<<97>>) >>)
    /\ buf = <<97, 10, 10>>


\* a tree built from root, paragraph, strong and text nodes only
RECURSIVE Plain(_)
Plain(node) ==
    /\ node.kind \in {"Root", "Paragraph", "Strong", "Text"}
    /\ \A i \in 1..Len(node.children) : Plain(node.children[i])

\* the depth-first, left-to-right serialisation of such a tree: a text is
\* its bytes, a strong is 1B 45 01, its children, 1B 45 00, a paragraph is
\* its children and two newlines, the root is its children
RECURSIVE Flat(_)
RECURSIVE FlatAll(_)
Flat(node) ==
    IF node.kind = "Text" THEN node.value
    ELSE IF node.kind = "Strong"
    THEN <<27, 69, 1>> \o FlatAll(node.children) \o <<27, 69, 0>>
    ELSE IF node.kind = "Paragraph"
    THEN FlatAll(node.children) \o <<10, 10>>
    ELSE FlatAll(node.children)

FlatAll(children) ==
    IF children = <<>> THEN <<>>
    ELSE Flat(Head(children)) \o FlatAll(Tail(children))

\* C19: for a tree of root, paragraph, strong and text nodes the compiled
\* buffer is what was in it followed by the depth-first, left-to-right
\* concatenation in which a text gives its bytes verbatim, a strong gives
\* bold-on, its children, bold-off, a paragraph gives its children and two
\* newlines and the root gives its children only: the text bytes come in
\* document order and nothing else is inserted.
C19_DocumentOrder ==
    (Compiled /\ Plain(cmd.doc)) => buf = cmd.content \o Flat(cmd.doc)

\* a paragraph of a text followed by a strong text
C19_Witness ==
    /\ Compiled
    /\ cmd.doc = Node("Paragraph", 0, <<>>,
                       << Text(<<97>>),
                          Node("Strong", 0, <<>>, <<Text(<<98, 99>>)>>) >>)
    /\ buf = <<97, 27, 69, 1, 98, 99, 27, 69, 0, 10, 10>>

---------------------------------------------------------------------------
(* Properties of the compiled stream as a printer reads it, checked under  *)
(* SpecCompile.  The printer knows the three style commands the compiler   *)
(* emits: ESC E n (bold, the low bit of n), ESC - n (underline, off for    *)
(* n = 0) and GS ! n (character size n); every other byte is printed in    *)
(* the style of the moment.                                                *)

\* the printer before the stream: bold off, underline off, normal size,
\* nothing printed (printed: for each byte printed, whether bold was on)
DefaultStyle ==
    [bold |-> FALSE, underline |-> FALSE, size |-> 0, printed |-> <<>>]

\* the printer after it has read `stream` in state st
RECURSIVE Interpret(_, _)
Interpret(stream, st) ==
    IF stream = <<>> THEN st
    ELSE IF Len(stream) >= 3 /\ stream[1] = 27 /\ stream[2] = 69
    THEN Interpret(SubSeq(stream, 4, Len(stream)),
                   [st EXCEPT !.bold = stream[3] % 2 = 1])
    ELSE IF Len(stream) >= 3 /\ stream[1] = 27 /\ stream[2] = 45
    THEN Interpret(SubSeq(stream, 4, Len(stream)),
                   [st EXCEPT !.underline = stream[3] # 0])
    ELSE IF Len(stream) >= 3 /\ stream[1] = 29 /\ stream[2] = 33
    THEN Interpret(SubSeq(stream, 4, Len(stream)),
                   [st EXCEPT !.size = stream[3]])
    ELSE Interpret(Tail(stream),
                   [st EXCEPT !.printed = Append(@, st.bold)])

\* the style the printer is left in by the compiled buffer
StyleAtEnd ==
    LET st == Interpret(buf, DefaultStyle)
    IN  [bold |-> st.bold, underline |-> st.underline, size |-> st.size]

StyleOff == [bold |-> FALSE, underline |-> FALSE, size |-> 0]

\* no text of the tree holds an ESC or a GS byte
RECURSIVE PlainText(_)
PlainText(node) ==
    /\ \A i \in 1..Len(node.value) : node.value[i] \notin {27, 29}
    /\ \A i \in 1..Len(node.children) : PlainText(node.children[i])

\* the statement for every tree, whatever its texts hold
C21_Original == Compiled => StyleAtEnd = StyleOff

\* C21: a printer that starts with bold off, underline off and normal size
\* and reads the compiled stream of a tree whose texts hold no command
\* bytes is in that default style again at the end of the stream, for every
\* nesting of headings, paragraphs and strong nodes: the last command that
\* touches a style switches it off.
C21_StyleRestored == (Compiled /\ PlainText(cmd.doc)) => StyleAtEnd = StyleOff

\* a depth-2 heading holding a strong text and a text: underline and bold
\* were switched on, bold twice, and all is off at the end
C21_Witness ==
    /\ Compiled
    /\ cmd.doc = Node("Heading", 2, <<>>,
                       << Node("Strong", 0, <<>>, <<Text(<<97>>)>>),
                          Text(<<98, 99>>) >>)
    /\ buf = <<27, 45, 1, 27, 69, 1, 27, 69, 1, 97, 27, 69, 0, 98, 99,
               27, 45, 0, 27, 69, 0, 10, 10>>
    /\ StyleAtEnd = StyleOff

\* for each byte the printer prints from the compiled buffer, whether bold
\* was on
PrintedBold == Interpret(buf, DefaultStyle).printed

\* the nodes are the inline content a heading holds: texts, strong and
\* emphasis nodes, nested in any way
RECURSIVE Inline(_)
Inline(children) ==
    \A i \in 1..Len(children) :
        /\ children[i].kind \in {"Text", "Strong", "Emphasis"}
        /\ Inline(children[i].children)

\* C22: in the compiled stream of a depth-2 or depth-3 heading every text
\* byte that comes from below the heading is printed while bold is on,
\* for every shape of inline children, a strong node followed by text
\* among them (the texts hold no command bytes; the last two bytes printed
\* are the heading's own newlines, after its reset).
C22_HeadingTextBold ==
    (/\ Compiled
     /\ cmd.doc.kind = "Heading"
     /\ cmd.doc.depth \in {2, 3}
     /\ cmd.content = <<>>
     /\ Inline(cmd.doc.children)
     /\ PlainText(cmd.doc)) =>
        \A i \in 1..(Len(PrintedBold) - 2) : PrintedBold[i]


=============================================================================
